---- MODULE Spec2Model ----
(***************************************************************************)
(* Cart store of the Wool Witch storefront (src/src/contexts/CartContext.  *)
(* tsx): the React state `items` / `isLoading`, the localStorage entry     *)
(* 'woolwitch-cart', the load effect, the save effect and the handlers     *)
(* addItem, removeItem, updateQuantity, updateCustomSelections, clearCart. *)
(***************************************************************************)
EXTENDS Integers, Sequences, FiniteSets, TLC

VARIABLES
  items,       \* useState<CartItem[]>: the in-memory line list
  isLoading,   \* useState(true)
  storage,     \* localStorage entry under 'woolwitch-cart'
  loadPc,      \* position of loadAndValidateCart: "mount", "validating", "done"
               \* ("escaped": left by an exception)
  cartItems,   \* the parsed list the load closure holds across its await
  saveDue,     \* a render with changed [items, isLoading] has not run its save effect yet
  persisted,   \* history: the in-memory list of the last write of the durable entry
  lastOp,      \* the handler call that was applied last, with its arguments
  cleanupPc,   \* position of cleanupCart: "idle", "validating"
  cleanupItems, \* the `items` of the render whose cleanupCart is in flight
  removedCount, \* the value the last cleanupCart call resolved with
  orderPc,     \* position of createOrder: "idle", "validating", "apiCreateOrder",
               \* "apiCreatePayment", "apiGetOrderById", "resolved", "rejected"
  orderData,   \* the argument of the createOrder call: cartItems, paymentId
  orderValid,  \* history: what validateCartProducts reported to createOrder
  orderCalls,  \* history: the backend calls the createOrder call has made, in order
  priceArgs,   \* the cart lines the pricing functions are applied to
  priceResult, \* the pricing function applied last, and what it returned
  cache,       \* DataService.cache: key -> CacheEntry, or no entry
  dateNow,     \* Date.now(), in units of the model
  backend,     \* the version of the product data the backend holds
  reads,       \* per caller: its getProductDetails / getProductSummaries call
  mcpCart,     \* the MCP server's cart: product id -> quantity, 0 for no entry
  toolResult   \* the tool result the chat client has received and not yet synced

cleanupVars == <<cleanupPc, cleanupItems, removedCount>>

orderVars == <<orderPc, orderData, orderValid, orderCalls>>

priceVars == <<priceArgs, priceResult>>

cacheVars == <<cache, dateNow, backend, reads>>

chatVars == <<mcpCart, toolResult>>

\* the state outside the cart store
serviceVars == <<orderVars, priceVars, cacheVars, chatVars>>

cartVars == <<items, isLoading, storage, loadPc, cartItems, saveDue, persisted, lastOp,
              cleanupVars>>

vars == <<cartVars, serviceVars>>

\* what the steps of one service leave alone
notOrderVars == <<cartVars, priceVars, cacheVars, chatVars>>
notPriceVars == <<cartVars, orderVars, cacheVars, chatVars>>
notCacheVars == <<cartVars, orderVars, priceVars, chatVars>>
notChatVars == <<cartVars, orderVars, priceVars, cacheVars>>

----------------------------------------------------------------------------
(* Bounds *)

MaxQuantityArg == 2   \* largest quantity argument passed to a handler

MaxQuantity == MaxQuantityArg          \* largest line quantity kept in the model
QuantityArgs == -1 .. MaxQuantityArg   \* zero and negative arguments included
QuantityRange == 0 .. MaxQuantity

----------------------------------------------------------------------------
(* Data *)

ProductIds == {"p1", "p2"}
Products == [id : ProductIds]

\* `cart-${Date.now()}-${Math.random()...}`: a fresh string per call
\* the line ids of the model, in the order they are handed out
LineIdNames == <<"cart-1", "cart-2">>

\* ids a caller may pass: the id of a line of the cart, a product id, or an id
\* of nothing
IdArgs(list) == {list[i].id : i \in 1..Len(list)} \cup ProductIds \cup {"none"}

\* product.custom_properties: p1 is customizable by two dropdowns, p2 has no
\* custom properties
PropertyIds == {"size", "colour"}
PropertyValues(propertyId) == IF propertyId = "size" THEN {"S"} ELSE {"red"}
customProperties(productId) == IF productId = "p1" THEN PropertyIds ELSE {}

\* CustomPropertiesInput.handleValueChange: replace the selection of the
\* property if there is one, else push a new one
handleValueChange(values, propertyId, value) ==
  LET sel == [propertyId |-> propertyId, value |-> value]
      existing == {i \in 1..Len(values) : values[i].propertyId = propertyId}
  IN IF existing # {}
       THEN LET existingIndex == CHOOSE i \in existing : \A j \in existing : i <= j
            IN [values EXCEPT ![existingIndex] = sel]
       ELSE Append(values, sel)

RECURSIVE ReachableSelections(_, _)
ReachableSelections(properties, n) ==
  IF n = 0 THEN {<<>>}
  ELSE LET prev == ReachableSelections(properties, n - 1)
       IN prev \cup {handleValueChange(c[1], c[2], c[3]) :
                       c \in {c \in prev \X properties \X {"S", "red"} :
                                 c[3] \in PropertyValues(c[2])}}

\* the selection lists the customize form of a product can produce
FormLists ==
  [productId \in ProductIds |->
     ReachableSelections(customProperties(productId), Cardinality(customProperties(productId)))]
SelectionLists(productId) == FormLists[productId]

\* customSelections?: either undefined (has = FALSE) or a list
NoSel == [has |-> FALSE, list |-> <<>>]
SelectionArgs(productId) == {NoSel} \cup {[has |-> TRUE, list |-> l] : l \in SelectionLists(productId)}

\* the lists a caller may pass to updateCustomSelections(id, ...): those of the
\* form of the product of the line it edits
EditLists(list, id) ==
  LET target == {list[i].product.id : i \in {i \in 1..Len(list) : list[i].id = id}}
  IN IF target = {} THEN SelectionLists("p1")
     ELSE UNION {SelectionLists(productId) : productId \in target}

\* { id, product, quantity, customSelections }
CartItem(id, product, quantity, sel) ==
  [id |-> id, product |-> product, quantity |-> quantity,
   hasCustomSelections |-> sel.has, customSelections |-> sel.list]

----------------------------------------------------------------------------
(* JSON.stringify / JSON.parse of the line list *)

ItemKeys == {"id", "product", "quantity", "customSelections"}

\* mutant: a serializer that also leaves out an empty selection list
stringifyItem_OmitsEmpty(item) ==
  [keys |-> IF item.hasCustomSelections /\ item.customSelections # <<>>
              THEN ItemKeys ELSE ItemKeys \ {"customSelections"},
   id |-> item.id, product |-> item.product, quantity |-> item.quantity,
   customSelections |-> item.customSelections]

\* a key whose value is undefined is left out of the object
stringifyItem(item) ==
  [keys |-> IF item.hasCustomSelections THEN ItemKeys ELSE ItemKeys \ {"customSelections"},
   id |-> item.id, product |-> item.product, quantity |-> item.quantity,
   customSelections |-> item.customSelections]

JSONstringify(list) ==
  [kind |-> "array", elems |-> [i \in 1..Len(list) |-> stringifyItem(list[i])]]

\* reading a key the object does not have yields undefined
parseItem(obj) ==
  [id |-> obj.id, product |-> obj.product, quantity |-> obj.quantity,
   hasCustomSelections |-> "customSelections" \in obj.keys,
   customSelections |-> IF "customSelections" \in obj.keys THEN obj.customSelections ELSE <<>>]

JSONparse(text) == [i \in 1..Len(text.elems) |-> parseItem(text.elems[i])]

NoEntry == [present |-> FALSE, text |-> [kind |-> "none", elems |-> <<>>]]
Entry(text) == [present |-> TRUE, text |-> text]
Garbage == [kind |-> "garbage", elems |-> <<>>]     \* JSON.parse throws
NonArray == [kind |-> "nonarray", elems |-> <<>>]   \* parses, Array.isArray is false

----------------------------------------------------------------------------
(* The updaters handed to setItems *)

\* Array.prototype.filter
RECURSIVE SelectSeqBy(_, _)
SelectSeqBy(s, keep) ==
  IF s = <<>> THEN <<>>
  ELSE IF Head(s) \in keep THEN <<Head(s)>> \o SelectSeqBy(Tail(s), keep)
       ELSE SelectSeqBy(Tail(s), keep)

\* mutant: the selections are compared position by position
matchesExisting_OrderSensitive(item, product, sel) ==
  IF item.product.id # product.id THEN FALSE
  ELSE IF ~sel.has \/ Len(sel.list) = 0
    THEN ~item.hasCustomSelections \/ Len(item.customSelections) = 0
  ELSE item.hasCustomSelections /\ item.customSelections = sel.list

\* the predicate of prevItems.find in addItem
matchesExisting(item, product, sel) ==
  IF item.product.id # product.id THEN FALSE
  ELSE IF ~sel.has \/ Len(sel.list) = 0
    THEN ~item.hasCustomSelections \/ Len(item.customSelections) = 0
  ELSE IF ~item.hasCustomSelections \/ Len(item.customSelections) # Len(sel.list)
    THEN FALSE
  ELSE \A k \in 1..Len(sel.list) :
         \E j \in 1..Len(item.customSelections) :
            /\ item.customSelections[j].propertyId = sel.list[k].propertyId
            /\ item.customSelections[j].value = sel.list[k].value

\* index of the line prevItems.find returns, 0 for undefined
findExisting(prevItems, product, sel) ==
  LET hits == {i \in 1..Len(prevItems) : matchesExisting(prevItems[i], product, sel)}
  IN IF hits = {} THEN 0 ELSE CHOOSE i \in hits : \A j \in hits : i <= j

\* mutant: no lookup of an existing line, every call appends
addItemUpdater_NeverMerges(prevItems, product, quantity, sel, id) ==
  Append(prevItems, CartItem(id, product, quantity, sel))

addItemUpdater(prevItems, product, quantity, sel, id) ==
  LET existing == findExisting(prevItems, product, sel)
  IN IF existing # 0
       THEN [prevItems EXCEPT ![existing].quantity = prevItems[existing].quantity + quantity]
       ELSE Append(prevItems, CartItem(id, product, quantity, sel))

\* mutant: only the line id is compared
removeItemUpdater_LineIdOnly(prevItems, cartItemIdOrProductId) ==
  SelectSeqBy(prevItems,
              {item \in {prevItems[i] : i \in 1..Len(prevItems)} : ~(item.id = cartItemIdOrProductId)})

removeItemUpdater(prevItems, cartItemIdOrProductId) ==
  SelectSeqBy(prevItems,
              {item \in {prevItems[i] : i \in 1..Len(prevItems)} :
                 ~(item.id = cartItemIdOrProductId) /\ ~(item.product.id = cartItemIdOrProductId)})

\* mutant: a line id addresses every line of the product of its line
updateQuantityUpdater_WholeProduct(prevItems, cartItemIdOrProductId, quantity) ==
  [i \in 1..Len(prevItems) |->
     IF \/ prevItems[i].product.id = cartItemIdOrProductId
        \/ \E j \in 1..Len(prevItems) :
              prevItems[j].id = cartItemIdOrProductId /\ prevItems[j].product.id = prevItems[i].product.id
       THEN [prevItems[i] EXCEPT !.quantity = quantity]
       ELSE prevItems[i]]

updateQuantityUpdater(prevItems, cartItemIdOrProductId, quantity) ==
  [i \in 1..Len(prevItems) |->
     IF prevItems[i].id = cartItemIdOrProductId \/ prevItems[i].product.id = cartItemIdOrProductId
       THEN [prevItems[i] EXCEPT !.quantity = quantity]
       ELSE prevItems[i]]

\* mutant: the dual-mode lookup of removeItem and updateQuantity
updateCustomSelectionsUpdater_DualMode(prevItems, cartItemId, customSelections) ==
  [i \in 1..Len(prevItems) |->
     IF prevItems[i].id = cartItemId \/ prevItems[i].product.id = cartItemId
       THEN [prevItems[i] EXCEPT !.hasCustomSelections = TRUE, !.customSelections = customSelections]
       ELSE prevItems[i]]

updateCustomSelectionsUpdater(prevItems, cartItemId, customSelections) ==
  [i \in 1..Len(prevItems) |->
     IF prevItems[i].id = cartItemId
       THEN [prevItems[i] EXCEPT !.hasCustomSelections = TRUE, !.customSelections = customSelections]
       ELSE prevItems[i]]

----------------------------------------------------------------------------
(* State machine *)

Op(op, id, sel) == [op |-> op, id |-> id, sel |-> sel, quantity |-> 0]
QuantitiesOk(list) == \A i \in 1..Len(list) : list[i].quantity \in QuantityRange

\* the cartDebug validator: the lines whose product no longer resolves or is
\* flagged unavailable; valid when there is none
validateCartProducts(list, unavailable) ==
  LET invalidItems == SelectSeqBy(list, {item \in {list[i] : i \in 1..Len(list)} :
                                           item.product.id \in unavailable})
  IN [valid |-> invalidItems = <<>>, invalidItems |-> invalidItems]

\* cartItems.filter(item => !validation.invalidItems.some(invalid => invalid.product.id === item.product.id))
keepValid(list, validation) ==
  SelectSeqBy(list,
              {item \in {list[i] : i \in 1..Len(list)} :
                 ~\E k \in 1..Len(validation.invalidItems) :
                     validation.invalidItems[k].product.id = item.product.id})

\* no createOrder call has been made
OrderIdle ==
  /\ orderPc = "idle"
  /\ orderData = [cartItems |-> <<>>, paymentId |-> FALSE]
  /\ orderValid = "unknown"
  /\ orderCalls = <<>>

\* what a pricing function returns, one field per kind of result
NoResult ==
  [fn |-> "none", line |-> 0, value |-> 0, min |-> 0, max |-> 0,
   subtotal |-> 0, deliveryTotal |-> 0, total |-> 0, itemCount |-> 0]

\* no pricing function has been applied
PriceIdle == priceArgs = <<>> /\ priceResult = NoResult

\* the callers of the data service, and the reads they make
Callers == {"a", "b"}
ReadCalls ==
  {[op |-> "getProductDetails", ids |-> {"p1"}]}
    \cup {[op |-> "getProductSummaries", ids |-> ids] : ids \in {{}, ProductIds}}

\* `product_detail_${productId}`, `products_summary_${productIds.sort().join(',')}`
cacheKey(call) ==
  [prefix |-> IF call.op = "getProductDetails" THEN "product_detail_" ELSE "products_summary_",
   ids |-> call.ids]
CacheKeys == {cacheKey(call) : call \in ReadCalls}

\* preClear (history): the data was answered by the backend before a clearCache
NoCacheEntry == [present |-> FALSE, data |-> 0, timestamp |-> 0, ttl |-> 0, preClear |-> FALSE]
\* a caller's read: where it is, its arguments, when it was made (history),
\* what it returned (while fetching: what the backend has answered, 0 for no
\* answer yet), whether it issued a backend query (history), and whether
\* clearCache ran between the backend's answer and the return (history)
NoRead ==
  [pc |-> "idle", call |-> [op |-> "none", ids |-> {}], at |-> 0, result |-> 0, fetched |-> FALSE,
   cleared |-> FALSE]

\* a new DataService, no read made
CacheIdle ==
  /\ cache = [key \in CacheKeys |-> NoCacheEntry]
  /\ dateNow = 0
  /\ backend = 1
  /\ reads = [c \in Callers |-> NoRead]

\* what the chat client holds of a tool call: the tool's name and its input
NoToolResult == [tool |-> "none", product_id |-> "", quantity |-> 0]

\* a new MCP server, no tool called
ChatIdle ==
  /\ mcpCart = [productId \in ProductIds |-> 0]
  /\ toolResult = NoToolResult

ServicesIdle == OrderIdle /\ PriceIdle /\ CacheIdle /\ ChatIdle

Init ==
  /\ items = <<>>
  /\ isLoading = TRUE
  /\ storage \in {NoEntry, Entry(Garbage), Entry(NonArray), Entry(JSONstringify(<<>>))}
  /\ loadPc = "mount"
  /\ cartItems = <<>>
  /\ saveDue = FALSE
  /\ persisted = <<>>
  /\ lastOp = Op("mount", "none", NoSel)
  /\ cleanupPc = "idle"
  /\ cleanupItems = <<>>
  /\ removedCount = 0
  /\ ServicesIdle

\* loadAndValidateCart up to its await (or to its end when it does not await)
LoadStart ==
  /\ loadPc = "mount"
  /\ IF storage.present /\ storage.text.kind = "array" /\ Len(storage.text.elems) > 0
       THEN /\ cartItems' = JSONparse(storage.text)
            /\ loadPc' = "validating"
            /\ UNCHANGED <<isLoading, storage, saveDue>>
       ELSE /\ storage' = IF storage.present /\ storage.text.kind = "garbage"
                            THEN NoEntry ELSE storage
            /\ isLoading' = FALSE
            /\ loadPc' = "done"
            /\ saveDue' = TRUE
            /\ UNCHANGED cartItems
  /\ UNCHANGED <<items, persisted, lastOp>>
  /\ UNCHANGED <<cleanupVars, serviceVars>>

\* the await returns a validation result
ValidateReturns(unavailable) ==
  /\ loadPc = "validating"
  /\ LET validation == validateCartProducts(cartItems, unavailable)
         validItems == keepValid(cartItems, validation)
     IN IF ~validation.valid
          THEN /\ items' = validItems
               /\ storage' = Entry(JSONstringify(validItems))
               /\ persisted' = validItems
               /\ lastOp' = Op("load", "pruned", NoSel)
          ELSE /\ items' = cartItems
               /\ lastOp' = Op("load", "valid", NoSel)
               /\ UNCHANGED <<storage, persisted>>
  /\ isLoading' = FALSE
  /\ loadPc' = "done"
  /\ cartItems' = <<>>
  /\ saveDue' = TRUE
  /\ UNCHANGED <<cleanupVars, serviceVars>>

\* mutant: no try block around the await, the rejection leaves the load
ValidateThrows_Escapes ==
  /\ loadPc = "validating"
  /\ loadPc' = "escaped"
  /\ cartItems' = <<>>
  /\ UNCHANGED <<items, isLoading, storage, saveDue, persisted, lastOp>>
  /\ UNCHANGED <<cleanupVars, serviceVars>>

\* the await rejects: catch removes the entry, finally ends the load
ValidateThrows ==
  /\ loadPc = "validating"
  /\ storage' = NoEntry
  /\ isLoading' = FALSE
  /\ loadPc' = "done"
  /\ cartItems' = <<>>
  /\ saveDue' = TRUE
  /\ UNCHANGED <<items, persisted, lastOp>>
  /\ UNCHANGED <<cleanupVars, serviceVars>>

\* mutant: an empty list is not written
SaveEffect_SkipsEmpty ==
  /\ saveDue
  /\ saveDue' = FALSE
  /\ storage' = IF ~isLoading /\ items # <<>> THEN Entry(JSONstringify(items)) ELSE storage
  /\ persisted' = IF ~isLoading /\ items # <<>> THEN items ELSE persisted
  /\ UNCHANGED <<items, isLoading, loadPc, cartItems, lastOp>>
  /\ UNCHANGED <<cleanupVars, serviceVars>>

\* the save effect of the render that follows a change of items or isLoading
SaveEffect ==
  /\ saveDue
  /\ saveDue' = FALSE
  /\ storage' = IF ~isLoading THEN Entry(JSONstringify(items)) ELSE storage
  /\ persisted' = IF ~isLoading THEN items ELSE persisted
  /\ UNCHANGED <<items, isLoading, loadPc, cartItems, lastOp>>
  /\ UNCHANGED <<cleanupVars, serviceVars>>

\* a handler runs in an event of its own: after the mount effects, and after the
\* effects of the render the previous event caused
Mounted == loadPc # "mount" /\ ~saveDue

\* the ids some line already carries, in memory, in the load in flight or in
\* the durable entry
usedIds ==
  {items[i].id : i \in 1..Len(items)} \cup {cartItems[i].id : i \in 1..Len(cartItems)}
    \cup {storage.text.elems[i].id : i \in 1..Len(storage.text.elems)}

\* `cart-${Date.now()}-${Math.random()...}`: an id no line carries yet
\* ("" when the model has run out of ids)
newId ==
  LET free == {n \in 1..Len(LineIdNames) : LineIdNames[n] \notin usedIds}
  IN IF free = {} THEN "" ELSE LineIdNames[CHOOSE n \in free : \A m \in free : n <= m]

addItem(product, quantity, sel) ==
  /\ Mounted
  /\ findExisting(items, product, sel) = 0 => newId # ""
  /\ items' = addItemUpdater(items, product, quantity, sel, newId)
  /\ QuantitiesOk(items')
  /\ saveDue' = TRUE
  /\ lastOp' = [Op("addItem", product.id, sel) EXCEPT !.quantity = quantity]
  /\ UNCHANGED <<isLoading, storage, loadPc, cartItems, persisted>>
  /\ UNCHANGED <<cleanupVars, serviceVars>>

removeItem(cartItemIdOrProductId) ==
  /\ Mounted
  /\ items' = removeItemUpdater(items, cartItemIdOrProductId)
  /\ saveDue' = TRUE
  /\ lastOp' = Op("removeItem", cartItemIdOrProductId, NoSel)
  /\ UNCHANGED <<isLoading, storage, loadPc, cartItems, persisted>>
  /\ UNCHANGED <<cleanupVars, serviceVars>>

\* mutant: only a negative quantity removes
updateQuantity_NegativeOnly(cartItemIdOrProductId, quantity) ==
  /\ Mounted
  /\ items' = IF quantity < 0
                THEN removeItemUpdater(items, cartItemIdOrProductId)
                ELSE updateQuantityUpdater(items, cartItemIdOrProductId, quantity)
  /\ saveDue' = TRUE
  /\ lastOp' = Op("updateQuantity", cartItemIdOrProductId, NoSel)
  /\ UNCHANGED <<isLoading, storage, loadPc, cartItems, persisted>>
  /\ UNCHANGED <<cleanupVars, serviceVars>>

updateQuantity(cartItemIdOrProductId, quantity) ==
  /\ Mounted
  /\ items' = IF quantity <= 0
                THEN removeItemUpdater(items, cartItemIdOrProductId)
                ELSE updateQuantityUpdater(items, cartItemIdOrProductId, quantity)
  /\ saveDue' = TRUE
  /\ lastOp' = Op("updateQuantity", cartItemIdOrProductId, NoSel)
  /\ UNCHANGED <<isLoading, storage, loadPc, cartItems, persisted>>
  /\ UNCHANGED <<cleanupVars, serviceVars>>

updateCustomSelections(cartItemId, customSelections) ==
  /\ Mounted
  /\ items' = updateCustomSelectionsUpdater(items, cartItemId, customSelections)
  /\ saveDue' = TRUE
  /\ lastOp' = Op("updateCustomSelections", cartItemId, NoSel)
  /\ UNCHANGED <<isLoading, storage, loadPc, cartItems, persisted>>
  /\ UNCHANGED <<cleanupVars, serviceVars>>

clearCart ==
  /\ Mounted
  /\ items' = <<>>
  /\ storage' = NoEntry
  /\ saveDue' = TRUE
  /\ lastOp' = Op("clearCart", "none", NoSel)
  /\ UNCHANGED <<isLoading, loadPc, cartItems, persisted>>
  /\ UNCHANGED <<cleanupVars, serviceVars>>

\* the page is reloaded: a fresh CartProvider over the same localStorage
Reload ==
  /\ items' = <<>>
  /\ isLoading' = TRUE
  /\ loadPc' = "mount"
  /\ cartItems' = <<>>
  /\ saveDue' = FALSE
  /\ lastOp' = Op("mount", "none", NoSel)
  /\ UNCHANGED <<storage, persisted>>
  /\ UNCHANGED <<cleanupVars, serviceVars>>

Next ==
  \/ LoadStart
  \/ \E unavailable \in SUBSET ProductIds : ValidateReturns(unavailable)
  \/ ValidateThrows
  \/ SaveEffect
  \/ \E product \in Products, quantity \in QuantityArgs :
       \E sel \in SelectionArgs(product.id) : addItem(product, quantity, sel)
  \/ \E id \in IdArgs(items) : removeItem(id)
  \/ \E id \in IdArgs(items), quantity \in QuantityArgs : updateQuantity(id, quantity)
  \/ \E id \in IdArgs(items) :
       \E list \in EditLists(items, id) : updateCustomSelections(id, list)
  \/ clearCart
  \/ Reload

Spec == Init /\ [][Next]_vars

----------------------------------------------------------------------------
(* cleanupCart, and the life of one CartProvider over a cart left in the     *)
(* durable store by an earlier one                                           *)

\* cleanupCart up to its await: `items` is the list of the render the callback
\* was created in; an empty cart returns 0 without validating
cleanupCartStart ==
  /\ loadPc # "mount"
  /\ cleanupPc = "idle"
  /\ IF Len(items) = 0
       THEN /\ removedCount' = 0
            /\ lastOp' = Op("cleanupCart", "empty", NoSel)
            /\ UNCHANGED <<cleanupPc, cleanupItems>>
       ELSE /\ cleanupPc' = "validating"
            /\ cleanupItems' = items
            /\ UNCHANGED <<removedCount, lastOp>>
  /\ UNCHANGED <<items, isLoading, storage, loadPc, cartItems, saveDue, persisted, serviceVars>>

\* mutant: the count is the number of invalid products, not of removed lines
cleanupCartReturns_CountsProducts(unavailable) ==
  /\ cleanupPc = "validating"
  /\ LET validation == validateCartProducts(cleanupItems, unavailable)
         validItems == keepValid(cleanupItems, validation)
     IN IF ~validation.valid
          THEN /\ items' = validItems
               /\ removedCount' = Cardinality({cleanupItems[i].product.id : i \in 1..Len(cleanupItems)}
                                                \cap unavailable)
               /\ saveDue' = TRUE
               /\ lastOp' = Op("cleanupCart", "pruned", NoSel)
          ELSE /\ removedCount' = 0
               /\ lastOp' = Op("cleanupCart", "valid", NoSel)
               /\ UNCHANGED <<items, saveDue>>
  /\ cleanupPc' = "idle"
  /\ cleanupItems' = <<>>
  /\ UNCHANGED <<isLoading, storage, loadPc, cartItems, persisted, serviceVars>>

\* the await returns a validation result
cleanupCartReturns(unavailable) ==
  /\ cleanupPc = "validating"
  /\ LET validation == validateCartProducts(cleanupItems, unavailable)
         validItems == keepValid(cleanupItems, validation)
     IN IF ~validation.valid
          THEN /\ items' = validItems
               /\ removedCount' = Len(cleanupItems) - Len(validItems)
               /\ saveDue' = TRUE
               /\ lastOp' = Op("cleanupCart", "pruned", NoSel)
          ELSE /\ removedCount' = 0
               /\ lastOp' = Op("cleanupCart", "valid", NoSel)
               /\ UNCHANGED <<items, saveDue>>
  /\ cleanupPc' = "idle"
  /\ cleanupItems' = <<>>
  /\ UNCHANGED <<isLoading, storage, loadPc, cartItems, persisted, serviceVars>>

\* the await rejects: catch returns 0
cleanupCartThrows ==
  /\ cleanupPc = "validating"
  /\ removedCount' = 0
  /\ lastOp' = Op("cleanupCart", "threw", NoSel)
  /\ cleanupPc' = "idle"
  /\ cleanupItems' = <<>>
  /\ UNCHANGED <<items, isLoading, storage, loadPc, cartItems, saveDue, persisted, serviceVars>>

\* the selections the calls of one life pass: none, or one value per property
\* in the order of the form
LifeSelectionArgs(productId) ==
  {sel \in SelectionArgs(productId) :
     ~sel.has \/ (sel.list # <<>> /\ \A l \in SelectionLists(productId) : Len(l) <= Len(sel.list)
                                   /\ sel.list[1].propertyId = "size")}

\* the carts k addItem calls build from the empty cart
RECURSIVE AddedCarts(_)
AddedCarts(k) ==
  IF k = 0 THEN {<<>>}
  ELSE LET prev == AddedCarts(k - 1)
       IN prev \cup
          UNION {{addItemUpdater(c, product, 1, sel, LineIdNames[Len(c) + 1]) :
                    sel \in LifeSelectionArgs(product.id)} :
                  c \in prev, product \in Products}

\* what an earlier CartProvider may have left under 'woolwitch-cart'
SavedCarts == AddedCarts(Len(LineIdNames))

LifeInit ==
  /\ items = <<>>
  /\ isLoading = TRUE
  /\ \/ storage \in {NoEntry, Entry(Garbage), Entry(NonArray)} /\ persisted = <<>>
     \/ \E c \in SavedCarts : storage = Entry(JSONstringify(c)) /\ persisted = c
  /\ loadPc = "mount"
  /\ cartItems = <<>>
  /\ saveDue = FALSE
  /\ lastOp = Op("mount", "none", NoSel)
  /\ cleanupPc = "idle"
  /\ cleanupItems = <<>>
  /\ removedCount = 0
  /\ ServicesIdle

\* the handler calls of one life: one call while a validation is in flight
\* (the load's, before any other call, or cleanupCart's, on the list it
\* captured); the calls of earlier lives are in SavedCarts
CallInFlight ==
  \/ loadPc = "validating" /\ lastOp.op = "mount"
  \/ cleanupPc = "validating" /\ items = cleanupItems

LifeNext ==
  \/ LoadStart
  \/ \E unavailable \in SUBSET ProductIds : ValidateReturns(unavailable)
  \/ ValidateThrows
  \/ SaveEffect
  \/ CallInFlight /\ \E product \in Products :
       \E sel \in LifeSelectionArgs(product.id) : addItem(product, 1, sel)
  \/ CallInFlight /\ \E id \in IdArgs(items) : removeItem(id)
  \/ CallInFlight /\ \E id \in IdArgs(items), quantity \in {0, MaxQuantityArg} :
       updateQuantity(id, quantity)
  \/ CallInFlight /\ \E id \in IdArgs(items) :
       \E list \in {sel.list : sel \in LifeSelectionArgs("p1")} \cap EditLists(items, id) :
          updateCustomSelections(id, list)
  \/ CallInFlight /\ clearCart
  \/ cleanupCartStart
  \/ \E unavailable \in SUBSET ProductIds : cleanupCartReturns(unavailable)
  \/ cleanupCartThrows

\* the mount effect runs, and a validation that was started settles
LifeSpec ==
  /\ LifeInit
  /\ [][LifeNext]_vars
  /\ WF_vars(LoadStart)
  /\ WF_vars(ValidateThrows \/ \E unavailable \in SUBSET ProductIds : ValidateReturns(unavailable))

----------------------------------------------------------------------------
(* createOrder of the order service (src/unnamed/part_010)                  *)

\* a CartProvider that has not run its mount effect, over an empty store
CartUnmounted ==
  /\ items = <<>>
  /\ isLoading = TRUE
  /\ storage = NoEntry
  /\ loadPc = "mount"
  /\ cartItems = <<>>
  /\ saveDue = FALSE
  /\ persisted = <<>>
  /\ lastOp = Op("mount", "none", NoSel)
  /\ cleanupPc = "idle"
  /\ cleanupItems = <<>>
  /\ removedCount = 0

\* createOrder(orderData) up to its first await
createOrder(orderCartItems, paymentId) ==
  /\ orderPc \in {"idle", "resolved", "rejected"}
  /\ orderPc' = "validating"
  /\ orderData' = [cartItems |-> orderCartItems, paymentId |-> paymentId]
  /\ orderValid' = "unknown"
  /\ orderCalls' = <<>>
  /\ UNCHANGED notOrderVars

\* mutant: the validation result is not looked at
createOrderValidated_IgnoresInvalid(unavailable) ==
  /\ orderPc = "validating"
  /\ LET validation == validateCartProducts(orderData.cartItems, unavailable)
     IN /\ orderValid' = IF validation.valid THEN "valid" ELSE "invalid"
        /\ orderPc' = "apiCreateOrder"
        /\ orderCalls' = Append(orderCalls, "apiCreateOrder")
  /\ UNCHANGED <<orderData, notOrderVars>>

\* validateCartProducts returns: an invalid cart throws, a valid one goes on to
\* call apiCreateOrder
createOrderValidated(unavailable) ==
  /\ orderPc = "validating"
  /\ LET validation == validateCartProducts(orderData.cartItems, unavailable)
     IN IF ~validation.valid
          THEN /\ orderValid' = "invalid"
               /\ orderPc' = "rejected"
               /\ UNCHANGED orderCalls
          ELSE /\ orderValid' = "valid"
               /\ orderPc' = "apiCreateOrder"
               /\ orderCalls' = Append(orderCalls, "apiCreateOrder")
  /\ UNCHANGED <<orderData, notOrderVars>>

\* logCartValidation or validateCartProducts rejects: outside the try block
createOrderValidationThrows ==
  /\ orderPc = "validating"
  /\ orderValid' = "threw"
  /\ orderPc' = "rejected"
  /\ UNCHANGED <<orderData, orderCalls, notOrderVars>>

\* apiCreateOrder returns the order id: the payment record is created when a
\* paymentId was given, then the order is fetched
apiCreateOrderReturns ==
  /\ orderPc = "apiCreateOrder"
  /\ orderPc' = IF orderData.paymentId THEN "apiCreatePayment" ELSE "apiGetOrderById"
  /\ orderCalls' = Append(orderCalls, orderPc')
  /\ UNCHANGED <<orderData, orderValid, notOrderVars>>

apiCreatePaymentReturns ==
  /\ orderPc = "apiCreatePayment"
  /\ orderPc' = "apiGetOrderById"
  /\ orderCalls' = Append(orderCalls, orderPc')
  /\ UNCHANGED <<orderData, orderValid, notOrderVars>>

\* apiGetOrderById returns the order, or null
apiGetOrderByIdReturns(found) ==
  /\ orderPc = "apiGetOrderById"
  /\ orderPc' = IF found THEN "resolved" ELSE "rejected"
  /\ UNCHANGED <<orderData, orderValid, orderCalls, notOrderVars>>

\* a backend call rejects: catch rethrows
apiCallThrows ==
  /\ orderPc \in {"apiCreateOrder", "apiCreatePayment", "apiGetOrderById"}
  /\ orderPc' = "rejected"
  /\ UNCHANGED <<orderData, orderValid, orderCalls, notOrderVars>>

OrderInit == CartUnmounted /\ ServicesIdle

OrderNext ==
  \/ \E orderCartItems \in SavedCarts, paymentId \in BOOLEAN : createOrder(orderCartItems, paymentId)
  \/ \E unavailable \in SUBSET ProductIds : createOrderValidated(unavailable)
  \/ createOrderValidationThrows
  \/ apiCreateOrderReturns
  \/ apiCreatePaymentReturns
  \/ \E found \in BOOLEAN : apiGetOrderByIdReturns(found)
  \/ apiCallThrows

OrderSpec == OrderInit /\ [][OrderNext]_vars

----------------------------------------------------------------------------
(* The pricing functions of the order service (src/unnamed/part_010) and    *)
(* the totals the cart context derives from them. Prices are whole pence.   *)

MaxLines == 2   \* longest cart the pricing functions are applied to

\* number | null
NullNumber == [isNull |-> TRUE, value |-> 0]
Number(n) == [isNull |-> FALSE, value |-> n]

\* CustomPropertyDropdown; optionPrices is optional, a map option -> price
\* kept as its set of <<option, price>> entries
Dropdown(id, hasOptionPrices, optionPrices) ==
  [id |-> id, type |-> "dropdown", hasOptionPrices |-> hasOptionPrices, optionPrices |-> optionPrices]

\* a property of another type
TextProperty(id) ==
  [id |-> id, type |-> "text", hasOptionPrices |-> FALSE, optionPrices |-> {}]

PricedProperties ==
  {Dropdown("size", FALSE, {}), Dropdown("size", TRUE, {<<"S", 5>>}),
   Dropdown("size", TRUE, {<<"S", 5>>, <<"L", 7>>}),
   Dropdown("colour", TRUE, {<<"red", 9>>}), Dropdown("colour", TRUE, {}),
   TextProperty("note")}

\* CustomPropertiesConfig | null: up to two properties with different ids
NullConfig == [isNull |-> TRUE, properties |-> <<>>]
Configs ==
  {NullConfig} \cup {[isNull |-> FALSE, properties |-> <<>>]}
    \cup {[isNull |-> FALSE, properties |-> <<a>>] : a \in PricedProperties}
    \cup {[isNull |-> FALSE, properties |-> <<c[1], c[2]>>] :
            c \in {c \in PricedProperties \X PricedProperties : c[1].id # c[2].id}}

\* the selection lists CustomPropertiesInput builds for such a product
PricedValues == {<<"size", "S">>, <<"size", "L">>, <<"colour", "red">>, <<"note", "hi">>}
RECURSIVE PricedSelectionLists(_)
PricedSelectionLists(n) ==
  IF n = 0 THEN {<<>>}
  ELSE LET prev == PricedSelectionLists(n - 1)
       IN prev \cup {handleValueChange(c[1], c[2][1], c[2][2]) : c \in prev \X PricedValues}

PricedSelections == {NoSel} \cup {[has |-> TRUE, list |-> l] : l \in PricedSelectionLists(2)}

\* CartItem, with the fields of its product the pricing functions read
PricedItem(price, price_max, delivery_charge, custom_properties, quantity, sel) ==
  [product |-> [price |-> price, price_max |-> price_max, delivery_charge |-> delivery_charge,
                custom_properties |-> custom_properties],
   quantity |-> quantity, hasCustomSelections |-> sel.has, customSelections |-> sel.list]

PricedItems ==
  {PricedItem(20, c[1], c[2], c[3], c[4], c[5]) :
     c \in {NullNumber, Number(30)} \X {NullNumber, Number(3)} \X Configs
             \X (1..MaxQuantityArg) \X PricedSelections}

\* the lines longer carts are made of
PlainItems ==
  {item \in PricedItems :
     /\ item.product.price_max.isNull
     /\ item.product.custom_properties \in
          {NullConfig, [isNull |-> FALSE,
                        properties |-> <<Dropdown("size", TRUE, {<<"S", 5>>, <<"L", 7>>})>>]}
     /\ item.customSelections \in {<<>>, <<[propertyId |-> "size", value |-> "S"]>>}
     /\ item.hasCustomSelections = (item.customSelections # <<>>)}

RECURSIVE PlainCarts(_)
PlainCarts(n) ==
  IF n = 0 THEN {<<>>}
  ELSE LET prev == PlainCarts(n - 1)
       IN prev \cup {Append(c[1], c[2]) : c \in prev \X PlainItems}

PricedCarts == {<<item>> : item \in PricedItems} \cup PlainCarts(MaxLines)

\* dropdown.optionPrices?.[selection.value] of the property the selection
\* names: the set holding the price, empty for undefined
optionPriceOf(config, selection) ==
  LET found == {k \in 1..Len(config.properties) : config.properties[k].id = selection.propertyId}
  IN IF found = {} THEN {}
     ELSE LET property == config.properties[CHOOSE k \in found : \A j \in found : k <= j]
          IN IF property.type = "dropdown" /\ property.hasOptionPrices
               THEN {pr[2] : pr \in {pr \in property.optionPrices : pr[1] = selection.value}}
               ELSE {}

\* the loop runs over the selections, in the order of the selection list
getEffectivePrice(item) ==
  LET selections == item.customSelections
      config == item.product.custom_properties
  IN IF ~item.hasCustomSelections \/ Len(selections) = 0 THEN item.product.price
     ELSE IF config.isNull THEN item.product.price
     ELSE LET hits == {k \in 1..Len(selections) : optionPriceOf(config, selections[k]) # {}}
          IN IF hits = {} THEN item.product.price
             ELSE CHOOSE v \in optionPriceOf(config, selections[CHOOSE k \in hits : \A j \in hits : k <= j]) : TRUE

MinOf(S) == CHOOSE x \in S : \A y \in S : x <= y
MaxOf(S) == CHOOSE x \in S : \A y \in S : x >= y

\* mutant: the base price takes part in the range
getProductPriceRange_IncludesBase(config, basePrice, basePriceMax) ==
  LET dropdowns == {k \in 1..Len(config.properties) :
                      /\ config.properties[k].type = "dropdown"
                      /\ config.properties[k].hasOptionPrices}
      allOptionPrices == {pr[2] : pr \in UNION {config.properties[k].optionPrices : k \in dropdowns}}
  IN [min |-> MinOf(allOptionPrices \cup {basePrice}),
      max |-> MaxOf(allOptionPrices \cup {IF basePriceMax.isNull THEN basePrice ELSE basePriceMax.value})]

getProductPriceRange(config, basePrice, basePriceMax) ==
  LET base == [min |-> basePrice,
               max |-> IF basePriceMax.isNull THEN basePrice ELSE basePriceMax.value]
  IN IF config.isNull THEN base
     ELSE LET dropdowns == {k \in 1..Len(config.properties) :
                              /\ config.properties[k].type = "dropdown"
                              /\ config.properties[k].hasOptionPrices}
              allOptionPrices ==
                {pr[2] : pr \in UNION {config.properties[k].optionPrices : k \in dropdowns}}
          IN IF allOptionPrices = {} THEN base
             ELSE [min |-> MinOf(allOptionPrices), max |-> MaxOf(allOptionPrices)]

\* cartItems.reduce((total, item) => total + getEffectivePrice(item) * item.quantity, 0)
RECURSIVE calculateSubtotal(_)
calculateSubtotal(list) ==
  IF list = <<>> THEN 0
  ELSE LET item == list[Len(list)]
       IN calculateSubtotal(SubSeq(list, 1, Len(list) - 1)) + getEffectivePrice(item) * item.quantity

\* item.product.delivery_charge || 0
deliveryCharge(item) ==
  IF item.product.delivery_charge.isNull THEN 0 ELSE item.product.delivery_charge.value

\* mutant: the charge is counted once per line
RECURSIVE calculateDeliveryTotal_PerLine(_)
calculateDeliveryTotal_PerLine(list) ==
  IF list = <<>> THEN 0
  ELSE calculateDeliveryTotal_PerLine(SubSeq(list, 1, Len(list) - 1)) + deliveryCharge(list[Len(list)])

RECURSIVE calculateDeliveryTotal(_)
calculateDeliveryTotal(list) ==
  IF list = <<>> THEN 0
  ELSE LET item == list[Len(list)]
       IN calculateDeliveryTotal(SubSeq(list, 1, Len(list) - 1)) + deliveryCharge(item) * item.quantity

calculateTotal(list) == calculateSubtotal(list) + calculateDeliveryTotal(list)

\* cartItems.reduce((count, item) => count + item.quantity, 0)
RECURSIVE itemCount(_)
itemCount(list) ==
  IF list = <<>> THEN 0
  ELSE itemCount(SubSeq(list, 1, Len(list) - 1)) + list[Len(list)].quantity

getOrderSummary(list) ==
  LET subtotal == calculateSubtotal(list)
      deliveryTotal == calculateDeliveryTotal(list)
  IN [subtotal |-> subtotal, deliveryTotal |-> deliveryTotal,
      total |-> subtotal + deliveryTotal, itemCount |-> itemCount(list)]

\* CustomPropertiesInput.getValue: the value of the first selection of the
\* property, '' when there is none
getValue(values, propertyId) ==
  LET found == {k \in 1..Len(values) : values[k].propertyId = propertyId}
  IN IF found = {} THEN "" ELSE values[CHOOSE k \in found : \A j \in found : k <= j].value

\* CustomPropertiesInput.getEffectiveDisplayPrice: the loop runs over the
\* properties, in the order the config defines them; the set holding the
\* price, empty for undefined
getEffectiveDisplayPrice(properties, values) ==
  LET priceOf(k) ==
        IF properties[k].type # "dropdown" \/ ~properties[k].hasOptionPrices THEN {}
        ELSE LET selectedValue == getValue(values, properties[k].id)
             IN IF selectedValue = "" THEN {}
                ELSE {pr[2] : pr \in {pr \in properties[k].optionPrices : pr[1] = selectedValue}}
      hits == {k \in 1..Len(properties) : priceOf(k) # {}}
  IN IF hits = {} THEN {} ELSE priceOf(CHOOSE k \in hits : \A j \in hits : k <= j)

\* the calls
getEffectivePriceCall(i) ==
  /\ priceResult' = [NoResult EXCEPT !.fn = "getEffectivePrice", !.line = i,
                                      !.value = getEffectivePrice(priceArgs[i])]
  /\ UNCHANGED <<priceArgs, notPriceVars>>

getProductPriceRangeCall(i) ==
  /\ LET product == priceArgs[i].product
         range == getProductPriceRange(product.custom_properties, product.price, product.price_max)
     IN priceResult' = [NoResult EXCEPT !.fn = "getProductPriceRange", !.line = i,
                                         !.min = range.min, !.max = range.max]
  /\ UNCHANGED <<priceArgs, notPriceVars>>

calculateSubtotalCall ==
  /\ priceResult' = [NoResult EXCEPT !.fn = "calculateSubtotal", !.value = calculateSubtotal(priceArgs)]
  /\ UNCHANGED <<priceArgs, notPriceVars>>

calculateDeliveryTotalCall ==
  /\ priceResult' = [NoResult EXCEPT !.fn = "calculateDeliveryTotal",
                                      !.value = calculateDeliveryTotal(priceArgs)]
  /\ UNCHANGED <<priceArgs, notPriceVars>>

calculateTotalCall ==
  /\ priceResult' = [NoResult EXCEPT !.fn = "calculateTotal", !.value = calculateTotal(priceArgs)]
  /\ UNCHANGED <<priceArgs, notPriceVars>>

getOrderSummaryCall ==
  /\ LET summary == getOrderSummary(priceArgs)
     IN priceResult' = [NoResult EXCEPT !.fn = "getOrderSummary",
                                         !.subtotal = summary.subtotal,
                                         !.deliveryTotal = summary.deliveryTotal,
                                         !.total = summary.total,
                                         !.itemCount = summary.itemCount]
  /\ UNCHANGED <<priceArgs, notPriceVars>>

\* ProductCard's customize modal renders CustomPropertiesInput with the
\* product's properties, the selections made so far and the base price; the
\* component renders nothing for an empty property list
CustomPropertiesInputRender(i) ==
  /\ ~priceArgs[i].product.custom_properties.isNull
  /\ Len(priceArgs[i].product.custom_properties.properties) > 0
  /\ LET effectivePrice == getEffectiveDisplayPrice(priceArgs[i].product.custom_properties.properties,
                                                    priceArgs[i].customSelections)
         basePrice == priceArgs[i].product.price
     IN priceResult' = [NoResult EXCEPT !.fn = "CustomPropertiesInput", !.line = i,
                                         !.value = IF effectivePrice # {}
                                                     THEN CHOOSE v \in effectivePrice : TRUE
                                                     ELSE basePrice]
  /\ UNCHANGED <<priceArgs, notPriceVars>>

\* the totals a render of CartProvider puts into the context value
CartProviderTotals ==
  /\ priceResult' = [NoResult EXCEPT !.fn = "CartProvider",
                                      !.subtotal = calculateSubtotal(priceArgs),
                                      !.deliveryTotal = calculateDeliveryTotal(priceArgs),
                                      !.total = calculateTotal(priceArgs),
                                      !.itemCount = itemCount(priceArgs)]
  /\ UNCHANGED <<priceArgs, notPriceVars>>

PriceInit ==
  /\ CartUnmounted
  /\ OrderIdle
  /\ CacheIdle
  /\ ChatIdle
  /\ priceArgs \in PricedCarts
  /\ priceResult = NoResult

PriceNext ==
  \/ \E i \in 1..Len(priceArgs) : getEffectivePriceCall(i)
  \/ \E i \in 1..Len(priceArgs) : getProductPriceRangeCall(i)
  \/ calculateSubtotalCall
  \/ calculateDeliveryTotalCall
  \/ calculateTotalCall
  \/ getOrderSummaryCall
  \/ CartProviderTotals
  \/ \E i \in 1..Len(priceArgs) : CustomPropertiesInputRender(i)

PriceSpec == PriceInit /\ [][PriceNext]_vars

----------------------------------------------------------------------------
(* The cached reads of DataService (src/src/lib/dataService.ts)             *)

DEFAULT_TTL == 1   \* CACHE.DEFAULT_TTL, in units of the model
LIST_TTL == 1      \* CACHE.LIST_TTL, in units of the model
CATEGORY_TTL == 1  \* CACHE.CATEGORY_TTL, in units of the model
MaxStaleAge == 1   \* the stale grace period (5 minutes), in units of the model
MaxTime == 3       \* the clock stops here
MaxVersion == 2    \* the backend data changes up to this version

\* cleanCache: now > entry.timestamp + entry.ttl
isExpired(entry, t) == t > entry.timestamp + entry.ttl

\* mutant: an entry expires when its age reaches the ttl
isFresh_Exclusive(entry, t) == t < entry.timestamp + entry.ttl

\* getFromCache: Date.dateNow() <= entry.timestamp + entry.ttl
isFresh(entry, t) == t <= entry.timestamp + entry.ttl

cleanCache(c, t) ==
  [key \in DOMAIN c |-> IF c[key].present /\ isExpired(c[key], t) THEN NoCacheEntry ELSE c[key]]

\* the memory tier of getFromCache: the entry's data, or null. The persistent
\* tier holds product-list and category keys only (setCache), none of CacheKeys
getFromCache(c, key, t) ==
  LET cleaned == cleanCache(c, t)
  IN IF cleaned[key].present /\ isFresh(cleaned[key], t)
       THEN [hit |-> TRUE, data |-> cleaned[key].data]
       ELSE [hit |-> FALSE, data |-> 0]

setCache(c, key, data, ttl, t) ==
  [c EXCEPT ![key] = [present |-> TRUE, data |-> data, timestamp |-> t, ttl |-> ttl,
                      preClear |-> FALSE]]

\* getStaleData: the entry's data while its age is within ttl + maxStaleAge.
\* No read of the service calls it.
getStaleData(c, key, maxStaleAge, t) ==
  IF ~c[key].present THEN [hit |-> FALSE, data |-> 0]
  ELSE IF t - c[key].timestamp <= c[key].ttl + maxStaleAge
    THEN [hit |-> TRUE, data |-> c[key].data]
    ELSE [hit |-> FALSE, data |-> 0]

\* getProductDetails / getProductSummaries up to the return from the cache or
\* to the await of the backend query
read(c, call) ==
  /\ reads[c].pc # "fetching"
  /\ IF call.op = "getProductSummaries" /\ call.ids = {}
       THEN /\ reads' = [reads EXCEPT ![c] = [pc |-> "returned", call |-> call, at |-> dateNow,
                                              result |-> 0, fetched |-> FALSE,
                                              cleared |-> FALSE]]
            /\ UNCHANGED cache
       ELSE LET cached == getFromCache(cache, cacheKey(call), dateNow)
            IN /\ cache' = cleanCache(cache, dateNow)
               /\ reads' = [reads EXCEPT ![c] =
                    IF cached.hit
                      THEN [pc |-> "returned", call |-> call, at |-> dateNow,
                            result |-> cached.data, fetched |-> FALSE, cleared |-> FALSE]
                      ELSE [pc |-> "fetching", call |-> call, at |-> dateNow,
                            result |-> 0, fetched |-> TRUE, cleared |-> FALSE]]
  /\ UNCHANGED <<dateNow, backend, notCacheVars>>

\* getProductList(options) and getCategories(): the backend is queried
\* directly, no cache is looked at
DirectCalls == {[op |-> op, ids |-> {}] : op \in {"getProductList", "getCategories"}}

readDirect(c, call) ==
  /\ reads[c].pc # "fetching"
  /\ reads' = [reads EXCEPT ![c] = [pc |-> "fetching", call |-> call, at |-> dateNow,
                                     result |-> 0, fetched |-> TRUE, cleared |-> FALSE]]
  /\ UNCHANGED <<cache, dateNow, backend, notCacheVars>>

\* the backend answers the query with the data it holds; the answer is on its
\* way to the awaiting read
queryAnswered(c) ==
  /\ reads[c].pc = "fetching"
  /\ reads[c].result = 0
  /\ reads' = [reads EXCEPT ![c].result = backend]
  /\ UNCHANGED <<cache, dateNow, backend, notCacheVars>>

\* the await of the backend query returns with the data of the answer: the
\* data is returned, and cached by the reads that go through the cache
fetchReturns(c, data) ==
  /\ reads[c].pc = "fetching"
  /\ cache' = IF reads[c].call \in DirectCalls THEN cache
              ELSE LET key == cacheKey(reads[c].call)
                   IN [setCache(cache, key, data, DEFAULT_TTL, dateNow)
                         EXCEPT ![key].preClear = reads[c].cleared]
  /\ reads' = [reads EXCEPT ![c].pc = "returned", ![c].result = data, ![c].cleared = FALSE]
  /\ UNCHANGED <<dateNow, backend, notCacheVars>>

\* the backend query fails: the error is rethrown; getCategories returns []
fetchThrows(c) ==
  /\ reads[c].pc = "fetching"
  /\ reads[c].result = 0
  /\ reads' = [reads EXCEPT ![c].pc = IF reads[c].call.op = "getCategories"
                                        THEN "returned" ELSE "rejected"]
  /\ UNCHANGED <<cache, dateNow, backend, notCacheVars>>

\* clearCache
clearCache ==
  /\ cache' = [key \in CacheKeys |-> NoCacheEntry]
  /\ reads' = [c \in Callers |->
                 IF reads[c].pc = "fetching" /\ reads[c].result > 0 /\ reads[c].call \notin DirectCalls
                   THEN [reads[c] EXCEPT !.cleared = TRUE]
                   ELSE reads[c]]
  /\ UNCHANGED <<dateNow, backend, notCacheVars>>

\* time passes
Tick ==
  /\ dateNow < MaxTime
  /\ dateNow' = dateNow + 1
  /\ UNCHANGED <<cache, backend, reads, notCacheVars>>

\* the product data changes in the backend
BackendChanges ==
  /\ backend < MaxVersion
  /\ backend' = backend + 1
  /\ UNCHANGED <<cache, dateNow, reads, notCacheVars>>

CacheInit == CartUnmounted /\ ServicesIdle

CacheNext ==
  \/ \E c \in Callers, call \in ReadCalls : read(c, call)
  \/ \E c \in Callers, call \in DirectCalls : readDirect(c, call)
  \/ \E c \in Callers : fetchReturns(c, backend)
  \/ \E c \in Callers : fetchThrows(c)
  \/ clearCache
  \/ Tick
  \/ BackendChanges

\* the backend's answer reaches the awaiting read at once
CacheSpec == CacheInit /\ [][CacheNext]_vars

\* the reads that go through the cache, with the backend's answer on its way
\* for a while before the await returns
ClearNext ==
  \/ \E c \in Callers, call \in ReadCalls : read(c, call)
  \/ \E c \in Callers : queryAnswered(c)
  \/ \E c \in Callers : reads[c].result > 0 /\ fetchReturns(c, reads[c].result)
  \/ \E c \in Callers : fetchThrows(c)
  \/ clearCache
  \/ Tick
  \/ BackendChanges

ClearSpec == CacheInit /\ [][ClearNext]_vars

----------------------------------------------------------------------------
(* The chat cart: the cart tools of the MCP server (src/mcp/src/server.ts)  *)
(* and syncCartFromTools of the chat client, which replays each tool result *)
(* on the storefront cart. Every product id passed resolves to a product.   *)

\* existing.quantity += quantity, or cart.set(productId, {product, quantity})
mcpAddToCart(cart, productId, quantity) ==
  IF quantity <= 0 THEN cart
  ELSE IF cart[productId] > 0
    THEN [cart EXCEPT ![productId] = cart[productId] + quantity]
    ELSE [cart EXCEPT ![productId] = quantity]

\* cart.delete for 0, existing.quantity = quantity for an entry, and a new
\* entry for a product the cart does not hold
mcpUpdateCartQuantity(cart, productId, quantity) ==
  IF quantity < 0 THEN cart
  ELSE IF quantity = 0 THEN [cart EXCEPT ![productId] = 0]
  ELSE IF cart[productId] > 0 THEN [cart EXCEPT ![productId] = quantity]
  ELSE [cart EXCEPT ![productId] = quantity]

\* the tool calls: the server changes its cart and answers; the client keeps
\* the tool's name and input
add_to_cart(productId, quantity) ==
  /\ toolResult = NoToolResult
  /\ mcpCart' = mcpAddToCart(mcpCart, productId, quantity)
  /\ mcpCart'[productId] \in QuantityRange
  /\ toolResult' = [tool |-> "add_to_cart", product_id |-> productId, quantity |-> quantity]
  /\ UNCHANGED notChatVars

update_cart_quantity(productId, quantity) ==
  /\ toolResult = NoToolResult
  /\ mcpCart' = mcpUpdateCartQuantity(mcpCart, productId, quantity)
  /\ toolResult' = [tool |-> "update_cart_quantity", product_id |-> productId, quantity |-> quantity]
  /\ UNCHANGED notChatVars

remove_from_cart(productId) ==
  /\ toolResult = NoToolResult
  /\ mcpCart' = [mcpCart EXCEPT ![productId] = 0]
  /\ toolResult' = [tool |-> "remove_from_cart", product_id |-> productId, quantity |-> 0]
  /\ UNCHANGED notChatVars

clear_cart ==
  /\ toolResult = NoToolResult
  /\ mcpCart' = [productId \in ProductIds |-> 0]
  /\ toolResult' = [tool |-> "clear_cart", product_id |-> "", quantity |-> 0]
  /\ UNCHANGED notChatVars

\* syncCartFromTools on the result received: the cart handler the tool maps
\* to, called with the tool's input
syncCartFromTools ==
  /\ toolResult # NoToolResult
  /\ Mounted
  /\ toolResult' = NoToolResult
  /\ LET productId == toolResult.product_id
         quantity == toolResult.quantity
         product == [id |-> productId]
     IN CASE toolResult.tool = "add_to_cart" ->
               IF quantity <= 0
                 THEN UNCHANGED <<items, storage, saveDue, lastOp>>
                 ELSE /\ findExisting(items, product, NoSel) = 0 => newId # ""
                      /\ items' = addItemUpdater(items, product, quantity, NoSel, newId)
                      /\ QuantitiesOk(items')
                      /\ saveDue' = TRUE
                      /\ lastOp' = [Op("addItem", productId, NoSel) EXCEPT !.quantity = quantity]
                      /\ UNCHANGED storage
          [] toolResult.tool = "update_cart_quantity" ->
               IF quantity < 0
                 THEN UNCHANGED <<items, storage, saveDue, lastOp>>
                 ELSE /\ items' = IF quantity <= 0
                                    THEN removeItemUpdater(items, productId)
                                    ELSE updateQuantityUpdater(items, productId, quantity)
                      /\ saveDue' = TRUE
                      /\ lastOp' = Op("updateQuantity", productId, NoSel)
                      /\ UNCHANGED storage
          [] toolResult.tool = "remove_from_cart" ->
               /\ items' = removeItemUpdater(items, productId)
               /\ saveDue' = TRUE
               /\ lastOp' = Op("removeItem", productId, NoSel)
               /\ UNCHANGED storage
          [] toolResult.tool = "clear_cart" ->
               /\ items' = <<>>
               /\ storage' = NoEntry
               /\ saveDue' = TRUE
               /\ lastOp' = Op("clearCart", "none", NoSel)
  /\ UNCHANGED <<isLoading, loadPc, cartItems, persisted, cleanupVars>>
  /\ UNCHANGED <<mcpCart, orderVars, priceVars, cacheVars>>

\* the storefront with an empty durable store and a new MCP server
ChatInit == CartUnmounted /\ ServicesIdle

ChatNext ==
  \/ LoadStart
  \/ SaveEffect
  \/ \E productId \in ProductIds, quantity \in QuantityArgs : add_to_cart(productId, quantity)
  \/ \E productId \in ProductIds, quantity \in QuantityArgs : update_cart_quantity(productId, quantity)
  \/ \E productId \in ProductIds : remove_from_cart(productId)
  \/ clear_cart
  \/ syncCartFromTools

ChatSpec == ChatInit /\ [][ChatNext]_vars

----------------------------------------------------------------------------
(* Vocabulary of the properties *)

\* the set of (propertyId, value) pairs of a selection; absent counts as empty
SelectionSet(has, list) == IF has THEN {list[i] : i \in 1..Len(list)} ELSE {}

\* a line is selection-equivalent to (product, sel)
Equivalent(item, product, sel) ==
  /\ item.product.id = product.id
  /\ SelectionSet(item.hasCustomSelections, item.customSelections) = SelectionSet(sel.has, sel.list)

EquivalentLines(list, product, sel) == {i \in 1..Len(list) : Equivalent(list[i], product, sel)}

IdsDistinct(list) == \A i, j \in 1..Len(list) : list[i].id = list[j].id => i = j

\* the lines of `list` that neither carry `id` as their line id nor as their product id
KeptBy(list, id) == {i \in 1..Len(list) : list[i].id # id /\ list[i].product.id # id}

\* `after` is `before` restricted to the indexes `kept`, in the original order
IsRestriction(after, before, kept) ==
  /\ Len(after) = Cardinality(kept)
  /\ \A i \in kept : after[Cardinality({j \in kept : j <= i})] = before[i]

\* the step records a call of handler `op` (every step of the handler does, by
\* its definition; tested first, it tells the steps apart cheaply), and the
\* arguments the call recorded
Called(op) == lastOp'.op = op
calledProduct == [id |-> lastOp'.id]
calledId == lastOp'.id
calledSel == lastOp'.sel
calledQuantity == lastOp'.quantity

\* C1: re-adding the same product with the same selections merges: from any
\* reachable cart, addItem(p, a, s) followed by addItem(p, b, s) with a, b >= 1
\* changes exactly one line, a line for (p, s) whose quantity grows by a + b
\* (from 0 when it is new); at most one line is appended, none when the cart
\* already held an equivalent line, and the number of lines equivalent to
\* (p, s) does not grow beyond one.
C1_ReAddMerges ==
  Mounted =>
  \A product \in Products, a \in 1..MaxQuantityArg, b \in 1..MaxQuantityArg :
    \A sel \in SelectionArgs(product.id) :
      LET once == addItemUpdater(items, product, a, sel, "cart-a")
          twice == addItemUpdater(once, product, b, sel, "cart-b")
          had == EquivalentLines(items, product, sel)
          now == EquivalentLines(twice, product, sel)
      IN /\ Len(twice) = IF had = {} THEN Len(items) + 1 ELSE Len(items)
         /\ Cardinality(now) = IF had = {} THEN 1 ELSE Cardinality(had)
         /\ \E k \in now :
              /\ twice[k].quantity = (IF k <= Len(items) THEN items[k].quantity ELSE 0) + a + b
              /\ k <= Len(items) => twice[k] = [items[k] EXCEPT !.quantity = items[k].quantity + a + b]
              /\ \A j \in 1..Len(items) : j # k => twice[j] = items[j]

\* two addItem calls for the same (product, selections) have run on an empty
\* cart and left one line
C1_Witness ==
  /\ lastOp.op = "addItem"
  /\ Len(items) = 1
  /\ items[1].product.id = lastOp.id
  /\ Equivalent(items[1], items[1].product, lastOp.sel)
  /\ Len(lastOp.sel.list) = 2
  /\ lastOp.quantity = 1
  /\ items[1].quantity = 2

\* C2: every line of the cart has quantity >= 1 in every reachable state.
C2_QuantityAtLeastOne == \A i \in 1..Len(items) : items[i].quantity >= 1

\* C3: lines of one product with different selection sets are separate lines
\* with distinct ids: addItem of a product the cart holds only with other
\* selection sets appends a line under a new id, and removeItem,
\* updateQuantity and updateCustomSelections addressed to a line id leave
\* every other line as it was.
C3_SeparateLines ==
  [][/\ IdsDistinct(items')
     /\ (/\ Called("addItem")
         /\ addItem(calledProduct, calledQuantity, calledSel)
         /\ EquivalentLines(items, calledProduct, calledSel) = {})
          => /\ Len(items') = Len(items) + 1
             /\ \A i \in 1..Len(items) :
                  items'[i] = items[i] /\ items'[Len(items')].id # items[i].id
     /\ (calledId \in {items[i].id : i \in 1..Len(items)}
           /\ \/ Called("removeItem") /\ removeItem(calledId)
              \/ Called("updateQuantity")
                   /\ \E quantity \in QuantityArgs : updateQuantity(calledId, quantity)
              \/ Called("updateCustomSelections")
                   /\ \E list \in EditLists(items, calledId) : updateCustomSelections(calledId, list))
          => \A i \in 1..Len(items) :
               items[i].id # calledId => \E j \in 1..Len(items') : items'[j] = items[i]
    ]_vars

\* two lines of one product with different selections, one of them just
\* addressed by its line id, the other still as it was added
C3_Witness ==
  /\ lastOp.op = "updateQuantity"
  /\ Len(items) = 2
  /\ lastOp.id = items[1].id
  /\ items[1].product.id = items[2].product.id
  /\ items[1].id # items[2].id
  /\ ~Equivalent(items[1], items[2].product, [has |-> items[2].hasCustomSelections, list |-> items[2].customSelections])
  /\ items[1].quantity = 2
  /\ items[2].quantity = 1

C5_RemoveDualMode ==
  [][(Called("removeItem") /\ removeItem(calledId))
       => /\ IsRestriction(items', items, KeptBy(items, calledId))
          /\ calledId \in {items[i].id : i \in 1..Len(items)} => Len(items') = Len(items) - 1
          /\ calledId \in ProductIds => \A j \in 1..Len(items') : items'[j].product.id # calledId
    ]_vars

\* removeItem was called with a product id and the line of the other product
\* is still there
C5_Witness ==
  /\ lastOp.op = "removeItem"
  /\ lastOp.id \in ProductIds
  /\ Len(items) = 1
  /\ items[1].product.id # lastOp.id
  /\ items[1].id = "cart-2"

\* C6: updateQuantity(id, q) with q <= 0 leaves the cart removeItem(id) leaves;
\* with q >= 1 it sets the quantity of every line whose line id or product id
\* is id to q and changes nothing else.
C6_UpdateQuantity ==
  [][Called("updateQuantity") =>
     \A quantity \in QuantityArgs :
       updateQuantity(calledId, quantity)
         => IF quantity <= 0
              THEN IsRestriction(items', items, KeptBy(items, calledId))
              ELSE /\ Len(items') = Len(items)
                   /\ \A i \in 1..Len(items) :
                        IF i \in KeptBy(items, calledId)
                          THEN items'[i] = items[i]
                          ELSE items'[i] = [items[i] EXCEPT !.quantity = quantity]
    ]_vars

\* updateQuantity by product id has set the quantity of both lines of the product
C6_Witness ==
  /\ lastOp.op = "updateQuantity"
  /\ lastOp.id \in ProductIds
  /\ Len(items) = 2
  /\ \A i \in 1..2 : items[i].product.id = lastOp.id /\ items[i].quantity = MaxQuantityArg

\* C7: updateCustomSelections(id, list) changes at most one line, the one
\* whose line id is id, and of that line only the selections, which become
\* list; a product id or an id of no line changes nothing.
C7_UpdateSelectionsOneLine ==
  [][Called("updateCustomSelections") =>
     \A list \in EditLists(items, calledId) :
       updateCustomSelections(calledId, list)
         => /\ Len(items') = Len(items)
            /\ Cardinality({i \in 1..Len(items) : items'[i] # items[i]}) <= 1
            /\ \A i \in 1..Len(items) :
                 /\ items'[i].id = items[i].id
                 /\ items'[i].product = items[i].product
                 /\ items'[i].quantity = items[i].quantity
                 /\ items[i].id # calledId => items'[i] = items[i]
                 /\ items[i].id = calledId
                      => items'[i].hasCustomSelections /\ items'[i].customSelections = list
            /\ calledId \notin {items[i].id : i \in 1..Len(items)} => items' = items
    ]_vars

\* updateCustomSelections by line id has run on one of two lines of a product
C7_Witness ==
  /\ lastOp.op = "updateCustomSelections"
  /\ Len(items) = 2
  /\ lastOp.id = items[2].id
  /\ items[1].product.id = items[2].product.id
  /\ items[2].hasCustomSelections /\ Len(items[2].customSelections) = 2
  /\ ~items[1].hasCustomSelections

C9_ClearCartRemovesEntry ==
  (lastOp.op = "clearCart" /\ ~saveDue /\ ~isLoading) => (items = <<>> /\ ~storage.present)

\* C10: a cart persisted by one CartProvider and loaded by the next, with every
\* product validating, is the persisted list: the same lines in the same
\* order, with the same ids, quantities and selections.
C10_RoundTrip ==
  (lastOp.op = "load" /\ lastOp.id = "valid") => (items = persisted /\ items # <<>>)

\* a fresh CartProvider has loaded a two-line cart, one line without
\* selections and one with two
C10_Witness ==
  /\ lastOp.op = "load" /\ lastOp.id = "valid"
  /\ Len(items) = 2
  /\ ~items[1].hasCustomSelections
  /\ items[2].hasCustomSelections /\ Len(items[2].customSelections) = 2

\* C11: when the durable entry holds invalid content (text that does not
\* parse, or JSON that is not a list), the load ends with an empty cart and
\* with the corrupted entry removed from the durable store.
C11_CorruptedStorageRecovery ==
  loadPc = "done"
    => /\ storage.text.kind \notin {"garbage", "nonarray"}
       /\ lastOp.op = "mount" => items = <<>>

\* the lines of `list` whose product is not in `unavailable`
ValidLines(list, unavailable) == {i \in 1..Len(list) : list[i].product.id \notin unavailable}

\* C12: pruning keeps exactly the lines whose product the validator does not
\* report invalid, in their original order, and drops every line of an invalid
\* product: the load does so with the list it parsed, cleanupCart with the list
\* it was called on; cleanupCart resolves with the number of lines it dropped,
\* and with 0 when nothing is invalid, when the cart is empty and when the
\* validation throws.
C12_ValidatorPruning ==
  [][/\ (loadPc = "validating" /\ lastOp'.op = "load")
          => \A unavailable \in SUBSET ProductIds :
               ValidateReturns(unavailable)
                 => IsRestriction(items', cartItems, ValidLines(cartItems, unavailable))
     /\ (cleanupPc = "validating" /\ lastOp'.op = "cleanupCart")
          => /\ \A unavailable \in SUBSET ProductIds :
                  cleanupCartReturns(unavailable)
                    => LET kept == ValidLines(cleanupItems, unavailable)
                       IN /\ removedCount' = Len(cleanupItems) - Cardinality(kept)
                          /\ IF removedCount' = 0
                               THEN items' = items
                               ELSE /\ IsRestriction(items', cleanupItems, kept)
                                    /\ \A j \in 1..Len(items') : items'[j].product.id \notin unavailable
             /\ cleanupCartThrows => (removedCount' = 0 /\ items' = items)
     /\ (cleanupPc = "idle" /\ cleanupPc' = "idle" /\ cleanupCartStart)
          => (removedCount' = 0 /\ items' = items /\ items = <<>>)
    ]_vars

\* cleanupCart has run on a cart of one valid and one deleted product and
\* resolved with 1, leaving the valid line, which was the second
C12_Witness ==
  /\ lastOp.op = "cleanupCart" /\ lastOp.id = "pruned"
  /\ removedCount = 1
  /\ Len(items) = 1
  /\ items[1].id = "cart-2"
  /\ cleanupPc = "idle"

C14_LoadCompletes == <>[](loadPc = "done" /\ ~isLoading)

\* a load whose validation threw has ended: the entry is removed, the cart is
\* empty and isLoading is false
C14_Witness ==
  /\ loadPc = "done" /\ ~isLoading
  /\ lastOp.op = "mount"
  /\ persisted # <<>>
  /\ ~storage.present
  /\ items = <<>>

\* the price of the first dropdown property, in the order the config defines
\* its properties, whose selected value has an override price; the base price
\* when there is none
FirstMatchInDefinitionOrder(item) ==
  LET selections == item.customSelections
      config == item.product.custom_properties
  IN IF ~item.hasCustomSelections \/ Len(selections) = 0 THEN item.product.price
     ELSE IF config.isNull THEN item.product.price
     ELSE LET priceOfProperty(k) ==
                UNION {optionPriceOf(config, selections[j]) :
                         j \in {j \in 1..Len(selections) :
                                  selections[j].propertyId = config.properties[k].id}}
              hits == {k \in 1..Len(config.properties) : priceOfProperty(k) # {}}
          IN IF hits = {} THEN item.product.price
             ELSE CHOOSE v \in priceOfProperty(CHOOSE k \in hits : \A j \in hits : k <= j) : TRUE


\* C15: getEffectivePrice returns the override price of the first dropdown
\* property, in the order the product's config defines its properties, whose
\* selected value has an override price, and the base price when there are no
\* selections, no config or no selected value with an override; the order of
\* the selection list does not matter.
C15_FirstMatchInDefinitionOrder ==
  priceResult.fn = "getEffectivePrice"
    => priceResult.value = FirstMatchInDefinitionOrder(priceArgs[priceResult.line])

\* every override price of every dropdown property of a config
OverridePrices(config) ==
  {pr[2] : pr \in UNION {config.properties[k].optionPrices :
                           k \in {k \in 1..Len(config.properties) :
                                    config.properties[k].type = "dropdown"}}}

\* C16: getProductPriceRange returns {min: basePrice, max: basePriceMax, or
\* basePrice when that is null} when the config is null or no dropdown
\* property defines an override price, and otherwise the least and the
\* greatest of all override prices of all dropdown properties, whatever
\* basePrice and basePriceMax are.
C16_PriceRange ==
  priceResult.fn = "getProductPriceRange"
    => LET product == priceArgs[priceResult.line].product
           overrides == IF product.custom_properties.isNull THEN {}
                        ELSE OverridePrices(product.custom_properties)
       IN IF overrides = {}
            THEN /\ priceResult.min = product.price
                 /\ priceResult.max = IF product.price_max.isNull THEN product.price
                                      ELSE product.price_max.value
            ELSE /\ priceResult.min \in overrides /\ priceResult.max \in overrides
                 /\ \A v \in overrides : priceResult.min <= v /\ v <= priceResult.max

\* the range of a product with a base price range and override prices on two
\* dropdowns is the range of the overrides
C16_Witness ==
  /\ priceResult.fn = "getProductPriceRange"
  /\ ~priceArgs[priceResult.line].product.price_max.isNull
  /\ Len(priceArgs[priceResult.line].product.custom_properties.properties) = 2
  /\ priceResult.min = 5
  /\ priceResult.max = 9

\* the sum of f over the lines of a list
RECURSIVE SumOver(_, _)
SumOver(f(_), list) == IF list = <<>> THEN 0 ELSE f(Head(list)) + SumOver(f, Tail(list))

LinePrice(item) == getEffectivePrice(item) * item.quantity
LineDelivery(item) ==
  (IF item.product.delivery_charge.isNull THEN 0 ELSE item.product.delivery_charge.value) * item.quantity
LineQuantity(item) == item.quantity

\* C17: for every cart, calculateTotal is calculateSubtotal plus
\* calculateDeliveryTotal, calculateSubtotal is the sum over the lines of
\* effective price times quantity, calculateDeliveryTotal the sum of delivery
\* charge times quantity with a null charge counted as zero, and itemCount the
\* sum of the quantities; getOrderSummary and the cart context expose these
\* values.
C17_TotalDecomposition ==
  LET subtotal == SumOver(LinePrice, priceArgs)
      deliveryTotal == SumOver(LineDelivery, priceArgs)
  IN /\ priceResult.fn = "calculateSubtotal" => priceResult.value = subtotal
     /\ priceResult.fn = "calculateDeliveryTotal" => priceResult.value = deliveryTotal
     /\ priceResult.fn = "calculateTotal" => priceResult.value = subtotal + deliveryTotal
     /\ priceResult.fn \in {"getOrderSummary", "CartProvider"}
          => /\ priceResult.subtotal = subtotal
             /\ priceResult.deliveryTotal = deliveryTotal
             /\ priceResult.total = priceResult.subtotal + priceResult.deliveryTotal
             /\ priceResult.itemCount = SumOver(LineQuantity, priceArgs)

\* the cart context has derived the totals of a cart of two lines, two of a
\* product with an override price and a delivery charge and one of a product
\* without a delivery charge
C17_Witness ==
  /\ priceResult.fn = "CartProvider"
  /\ Len(priceArgs) = 2
  /\ priceArgs[1].quantity = 2 /\ getEffectivePrice(priceArgs[1]) = 5
  /\ ~priceArgs[1].product.delivery_charge.isNull
  /\ priceArgs[2].quantity = 1 /\ priceArgs[2].product.delivery_charge.isNull
  /\ priceResult.itemCount = 3
  /\ priceResult.deliveryTotal = 6
  /\ priceResult.total = 36

\* the reads that go through the cache
CachedReads == {call \in ReadCalls : call.ids # {}}

\* C18: a read of a key whose entry was cached at time T with ttl X, made at a
\* time T' <= T + X, returns the cached value at once and issues no backend
\* query.
C18_FreshServedFromCache ==
  [][\A c \in Callers, call \in CachedReads :
       LET entry == cache[cacheKey(call)]
       IN (read(c, call) /\ entry.present /\ dateNow <= entry.timestamp + entry.ttl)
            => /\ reads'[c].pc = "returned"
               /\ reads'[c].result = entry.data
               /\ ~reads'[c].fetched
               /\ cache'[cacheKey(call)] = entry
    ]_vars

\* a read made exactly ttl after the entry was cached, with the backend data
\* changed meanwhile, was served the cached value without a query
C18_Witness ==
  \E c \in Callers :
    LET entry == cache[cacheKey(reads[c].call)]
    IN /\ reads[c].pc = "returned"
       /\ reads[c].call.op = "getProductDetails"
       /\ ~reads[c].fetched
       /\ entry.present
       /\ reads[c].at = entry.timestamp + entry.ttl
       /\ reads[c].at > 0
       /\ reads[c].result = entry.data
       /\ backend # entry.data

\* C19: a read of a key whose entry has an age above its ttl and within ttl
\* plus the stale grace period returns the old cached value at once, without
\* waiting for the backend (a refresh runs in the background); at a greater
\* age the read waits for a new fetch.
C19_StaleWhileRevalidate ==
  [][\A c \in Callers, call \in CachedReads :
       LET entry == cache[cacheKey(call)]
           age == dateNow - entry.timestamp
       IN (read(c, call) /\ entry.present /\ age > entry.ttl)
            => IF age <= entry.ttl + MaxStaleAge
                 THEN reads'[c].pc = "returned" /\ reads'[c].result = entry.data
                 ELSE reads'[c].pc = "fetching"
    ]_vars

\* C20: two reads of the same key that are in flight together, with no usable
\* cached value, share one backend query: they have not each issued one.
C20_RequestDeduplication ==
  \A c1, c2 \in Callers :
    (/\ c1 # c2
     /\ reads[c1].pc = "fetching" /\ reads[c2].pc = "fetching"
     /\ cacheKey(reads[c1].call) = cacheKey(reads[c2].call))
      => ~(reads[c1].fetched /\ reads[c2].fetched)

\* C21: when the backend query of a read fails and the cache holds no value
\* for it, the read (getProductList, getProductSummaries, getProductDetails,
\* getCategories) rejects with the error instead of returning a value.
C21_FetchFailurePropagates ==
  [][\A c \in Callers :
       (/\ fetchThrows(c)
        /\ reads[c].call \in DirectCalls \/ ~cache[cacheKey(reads[c].call)].present)
         => reads'[c].pc = "rejected"
    ]_vars

\* C22: after a getProductList(options) or getCategories() call has returned
\* the backend's data, a call with the same parameters made within the list /
\* category ttl is served from the cache: it issues no backend query.
C22_ListReadsCached ==
  [][\A c \in Callers, call \in DirectCalls :
       (/\ readDirect(c, call)
        /\ \E d \in Callers \ {c} :
             /\ reads[d].pc = "returned" /\ reads[d].call = call /\ reads[d].result > 0
             /\ dateNow <= reads[d].at + (IF call.op = "getCategories" THEN CATEGORY_TTL ELSE LIST_TTL))
         => (~reads'[c].fetched /\ reads'[c].pc = "returned")
    ]_vars

\* C23: the cart never holds two lines of the same product whose selections
\* are the same set of (propertyId, value) pairs.
C23_NoEquivalentDuplicates ==
  \A i, j \in 1..Len(items) :
    (/\ i # j
     /\ items[i].product.id = items[j].product.id
     /\ SelectionSet(items[i].hasCustomSelections, items[i].customSelections)
          = SelectionSet(items[j].hasCustomSelections, items[j].customSelections))
      => FALSE

\* C24: a line added while the initial load's validation is in flight is still
\* in the cart when the load has finished with a valid result.
C24_NoMutationLostToLoad ==
  [][(/\ loadPc = "validating"
      /\ lastOp.op = "addItem"
      /\ loadPc' = "done"
      /\ lastOp' = Op("load", "valid", NoSel))
       => \E i \in 1..Len(items') : items'[i].product.id = lastOp.id
    ]_vars

\* C25: when cleanupCart commits a pruned cart after a handler added or changed
\* a line during its validation, every line of the cart as it was just before
\* the commit is kept unless its product is one the validation rejected, and
\* the commit brings no line the cart did not hold.
C25_CleanupRemovesOnlyInvalid ==
  [][(/\ cleanupPc = "validating"
      /\ lastOp.op \in {"addItem", "updateQuantity", "updateCustomSelections"}
      /\ items # cleanupItems
      /\ cleanupPc' = "idle"
      /\ lastOp' = Op("cleanupCart", "pruned", NoSel))
       => LET lines(list) == {list[i] : i \in 1..Len(list)}
              rejected == {line.product.id : line \in lines(cleanupItems)}
                            \ {line.product.id : line \in lines(items')}
          IN /\ \A line \in lines(items) :
                  line \in lines(items') \/ line.product.id \in rejected
             /\ lines(items') \subseteq lines(items)
    ]_vars

\* C26: the price CustomPropertiesInput shows for the selections made so far
\* (all of them for properties of the product) is the price getEffectivePrice
\* charges for the line added with these selections.
C26_DisplayedPriceIsCharged ==
  (/\ priceResult.fn = "CustomPropertiesInput"
   /\ LET item == priceArgs[priceResult.line]
          properties == item.product.custom_properties.properties
      IN \A k \in 1..Len(item.customSelections) :
           \E j \in 1..Len(properties) : properties[j].id = item.customSelections[k].propertyId)
    => priceResult.value
         = getEffectivePrice([priceArgs[priceResult.line] EXCEPT !.hasCustomSelections = TRUE])

\* C27: the effective price of a line without selections, or whose selections
\* all pick an option that carries an override price of a dropdown of the
\* product, lies between the min and the max of the product's price range.
C27_EffectivePriceInRange ==
  (/\ priceResult.fn = "getEffectivePrice"
   /\ LET item == priceArgs[priceResult.line]
      IN \/ item.customSelections = <<>>
         \/ /\ ~item.product.custom_properties.isNull
            /\ \A k \in 1..Len(item.customSelections) :
                 optionPriceOf(item.product.custom_properties, item.customSelections[k]) # {})
    => LET product == priceArgs[priceResult.line].product
           range == getProductPriceRange(product.custom_properties, product.price, product.price_max)
       IN range.min <= priceResult.value /\ priceResult.value <= range.max

\* apiCreateOrder has returned an order id: the order exists in the backend
OrderCreated == Len(orderCalls) >= 2

\* apiCreatePayment has returned: the payment record exists in the backend
PaymentRecorded ==
  \E k \in 1..Len(orderCalls) - 1 : orderCalls[k] = "apiCreatePayment"

\* C28: when createOrder was given a paymentId and has finished, resolved or
\* rejected, an order it created has its payment record.
C28_OrderHasPaymentRecord ==
  (/\ orderPc \in {"resolved", "rejected"}
   /\ orderData.paymentId
   /\ OrderCreated)
    => PaymentRecorded

\* the storefront cart's quantity of a product: the sum over its lines
RECURSIVE cartQuantity(_, _)
cartQuantity(list, productId) ==
  IF list = <<>> THEN 0
  ELSE cartQuantity(SubSeq(list, 1, Len(list) - 1), productId)
         + (IF list[Len(list)].product.id = productId THEN list[Len(list)].quantity ELSE 0)

\* C29: once every tool result has been synced, the storefront cart holds of
\* every product the quantity the MCP server's cart holds.
C29_ChatCartsEqual ==
  toolResult = NoToolResult
    => \A productId \in ProductIds : cartQuantity(items, productId) = mcpCart[productId]

\* C30: no read is served from the cache a value the backend answered before
\* a clearCache that ran before the value was cached.
C30_ClearCacheNotUndone ==
  [][\A c \in Callers, call \in CachedReads :
       LET entry == cache[cacheKey(call)]
       IN (read(c, call) /\ reads'[c].pc = "returned" /\ ~reads'[c].fetched)
            => ~entry.preClear
    ]_vars

====
